---- MODULE Spec2Model ----
(***************************************************************************)
(* Sliding-window rate limiter (counterStrategy.Run) over a shared sorted  *)
(* set store.  Time is counted in clock ticks, TicksPerMilli ticks to the  *)
(* millisecond, so that the truncation done by time.Time.UnixMilli is part *)
(* of the model.  Every round trip to the store is one step of a process.  *)
(***************************************************************************)
EXTENDS Integers, Sequences, FiniteSets, TLC

\* ---------------------------------------------------------------- bounds
MaxEvals == 3          \* Run calls started in one behaviour on one key
MaxCalls == 2          \* Run calls started in one behaviour on several keys or with store faults
MaxClock == 3          \* ticks the clock advances after the start
MaxLimit == 2          \* largest Request.Limit
MaxDuration == 2       \* largest Request.Duration, in ticks
MaxWindow == 3         \* largest Request.Duration of a sequential behaviour, in ticks
TicksPerMilli == 2     \* clock resolution below the millisecond
MaxHeaders == 2        \* header names an extractor is built with
MaxLen == 2            \* characters of a request header's value

Procs == {"p1", "p2"}
Keys == {"", "A", "B"}
Limits == 0..MaxLimit
Durations == 0..MaxDuration
Windows == 1..MaxWindow
StartClock == MaxDuration + TicksPerMilli

\* ---------------------------------------------------------------- types
\* limiter.go: State
Deny == 0
Allow == 1

Nil == [nil |-> TRUE]

\* limiter.go: Request
Request == [Key : Keys, Limit : Limits, Duration : Durations]

\* limiter.go: Result
MkResult(state, total, expiresAt) ==
    [State |-> state, TotalRequests |-> total, ExpiresAt |-> expiresAt]

\* ---------------------------------------------------------------- store
\* Range bounds of the sorted set commands: a finite score or an infinity.
Score(n) == [inf |-> 0, v |-> n]
sortedSetMin == [inf |-> -1, v |-> 0]
sortedSetMax == [inf |-> 1, v |-> 0]

ScoreLE(a, b) == \/ a.inf < b.inf
                 \/ a.inf = b.inf /\ (a.inf # 0 \/ a.v <= b.v)

\* time.Time.UnixMilli: whole milliseconds, rounded down
UnixMilli(t) == t \div TicksPerMilli

\* strconv.FormatInt(ms, 10) as read back by the store: the same score
FormatInt(ms) == Score(ms)

\* ZCOUNT key min max: members with min <= score <= max
ZCount(set, min, max) ==
    Cardinality({z \in set : ScoreLE(min, Score(z.Score)) /\ ScoreLE(Score(z.Score), max)})

\* variant: the upper end of the range left out (min <= score < max)
ZRemRangeByScoreOpenEnd(set, min, max) ==
    {z \in set : ~(ScoreLE(min, Score(z.Score)) /\ ScoreLE(Score(z.Score), max)
                   /\ Score(z.Score) # max)}

\* variant: nothing is dropped
ZRemRangeByScoreNone(set, min, max) == set

\* ZREMRANGEBYSCORE key min max: drops the members with min <= score <= max
ZRemRangeByScore(set, min, max) ==
    {z \in set : ~(ScoreLE(min, Score(z.Score)) /\ ScoreLE(Score(z.Score), max))}

\* variant: one member per score, as if the timestamp were the member
ZAddByScore(set, z) == {y \in set : y.Score # z.Score} \cup {z}

\* variant: the record goes in a second time under another member
ZAddTwice(set, z) == set \cup {z, [Score |-> z.Score, Member |-> 0 - z.Member]}

\* ZADD key score member: a member is held once, with its latest score
ZAdd(set, z) == {y \in set : y.Member # z.Member} \cup {z}

\* ---------------------------------------------------------------- state
VARIABLES
    store,     \* key -> set of [Score, Member]
    clock,     \* what now() returns, in ticks
    uuids,     \* identifiers handed out by uuid.New so far
    proc,      \* per process: the locals of its running Run call
    config,    \* the RateLimiterConfig of the middleware in front of Run
    started,   \* Run calls started so far
    last,      \* the Run call that returned most recently
    log,       \* the Run calls that returned, in order (kept by the sequential runs)
    extractor, \* the header names of the middleware's httpHeaderExtractor
    http       \* the HTTP request the middleware handled most recently

vars == <<store, clock, uuids, proc, config, started, last, log, extractor, http>>

Idle == [pc |-> "idle"]
NoCall == [n |-> 0]

NoRequest == [n |-> 0]

\* An empty store behind a middleware with one of the given configurations.
InitWith(configs) ==
    /\ store = [k \in Keys |-> {}]
    /\ clock = StartClock
    /\ uuids = 0
    /\ proc = [p \in Procs |-> Idle]
    /\ config \in configs
    /\ started = 0
    /\ last = NoCall
    /\ log = <<>>

InitRun == InitWith([MaxRequests : Limits, Expiration : Durations])

Init == InitRun /\ extractor = <<>> /\ http = NoRequest

Running == {p \in Procs : proc[p].pc # "idle"}

\* ---------------------------------------------------------------- Run
\* variant: a failed probe rejects whatever count it left behind
PreCheckDeniesOnError(err, result, r) == err

\* lines 54-55: the guard of the fast-reject path
PreCheckDenies(err, result, r) == err /\ result >= r.Limit

\* variant: denies from the Limit-th request on (>= for >)
WriteOutcomeOffByOne(r, expiresAt, execErr, removeErr, addErr, countErr, totalRequests) ==
    IF execErr \/ removeErr \/ addErr \/ countErr
    THEN [res |-> Nil, err |-> TRUE]
    ELSE IF totalRequests >= r.Limit
         THEN [res |-> MkResult(Deny, totalRequests, expiresAt), err |-> FALSE]
         ELSE [res |-> MkResult(Allow, totalRequests, expiresAt), err |-> FALSE]

\* variant: the error of the insert is not looked at (lines 90-92 left out)
WriteOutcomeAddUnchecked(r, expiresAt, execErr, removeErr, addErr, countErr, totalRequests) ==
    IF execErr \/ removeErr \/ countErr
    THEN [res |-> Nil, err |-> TRUE]
    ELSE IF totalRequests > r.Limit
         THEN [res |-> MkResult(Deny, totalRequests, expiresAt), err |-> FALSE]
         ELSE [res |-> MkResult(Allow, totalRequests, expiresAt), err |-> FALSE]

\* variant: the expiry is taken from the clock when Run returns
WriteOutcomeExpiresFromReturn(r, expiresAt, execErr, removeErr, addErr, countErr, totalRequests) ==
    IF execErr \/ removeErr \/ addErr \/ countErr
    THEN [res |-> Nil, err |-> TRUE]
    ELSE IF totalRequests > r.Limit
         THEN [res |-> MkResult(Deny, totalRequests, clock + r.Duration), err |-> FALSE]
         ELSE [res |-> MkResult(Allow, totalRequests, clock + r.Duration), err |-> FALSE]

\* variant: the call's own record is left out of the comparison
WriteOutcomeExcludesOwn(r, expiresAt, execErr, removeErr, addErr, countErr, totalRequests) ==
    IF execErr \/ removeErr \/ addErr \/ countErr
    THEN [res |-> Nil, err |-> TRUE]
    ELSE IF totalRequests - 1 > r.Limit
         THEN [res |-> MkResult(Deny, totalRequests, expiresAt), err |-> FALSE]
         ELSE [res |-> MkResult(Allow, totalRequests, expiresAt), err |-> FALSE]

\* lines 82-113: what Run returns once the pipeline has been executed
WriteOutcome(r, expiresAt, execErr, removeErr, addErr, countErr, totalRequests) ==
    IF execErr \/ removeErr \/ addErr \/ countErr
    THEN [res |-> Nil, err |-> TRUE]
    ELSE IF totalRequests > r.Limit
         THEN [res |-> MkResult(Deny, totalRequests, expiresAt), err |-> FALSE]
         ELSE [res |-> MkResult(Allow, totalRequests, expiresAt), err |-> FALSE]

\* What a returned call leaves behind for the caller and for the properties.
Returned(l, path, countErr, execErr, out) ==
    [n |-> last.n + 1, r |-> l.r, now |-> l.now, probeErr |-> l.probeErr,
     result |-> l.result, path |-> path,
     removeErr |-> l.removeErr, addErr |-> l.addErr, countErr |-> countErr,
     execErr |-> execErr, res |-> out.res, err |-> out.err]

\* lines 44-64: read the clock, probe the set, fast-reject or draw a uuid.
\* A probe that fails leaves result at 0, the value of a command without reply.
Begin(p, r, fail) ==
    /\ proc[p].pc = "idle"
    /\ started < MaxEvals
    /\ started' = started + 1
    /\ LET now == clock
           expiresAt == now + r.Duration
           minimum == now - r.Duration
           result == IF fail THEN 0
                     ELSE ZCount(store[r.Key], FormatInt(UnixMilli(minimum)), sortedSetMax)
           l == [pc |-> "ZRemRangeByScore", r |-> r, now |-> now,
                 expiresAt |-> expiresAt, minimum |-> minimum,
                 probeErr |-> fail, result |-> result, item |-> uuids + 1,
                 removeErr |-> FALSE, addErr |-> FALSE]
       IN IF PreCheckDenies(fail, result, r)
          THEN /\ last' = Returned(l, "precheck", FALSE, FALSE,
                                   [res |-> MkResult(Deny, result, expiresAt), err |-> FALSE])
               /\ UNCHANGED <<proc, uuids>>
          ELSE /\ proc' = [proc EXCEPT ![p] = l]
               /\ uuids' = uuids + 1
               /\ UNCHANGED last
    /\ UNCHANGED <<store, clock, config>>

\* line 71, executed by the store; a command that fails changes nothing
RemoveByScore(p, fail) ==
    /\ proc[p].pc = "ZRemRangeByScore"
    /\ LET l == proc[p] IN
       /\ store' = IF fail THEN store
                   ELSE [store EXCEPT ![l.r.Key] =
                           ZRemRangeByScore(@, FormatInt(0), FormatInt(UnixMilli(l.minimum)))]
       /\ proc' = [proc EXCEPT ![p] = [l EXCEPT !.pc = "ZAdd", !.removeErr = fail]]
    /\ UNCHANGED <<clock, uuids, config, started, last>>

\* variant: every caller's record goes into one set, whatever the key
AddSharedKey(p, fail) ==
    /\ proc[p].pc = "ZAdd"
    /\ LET l == proc[p] IN
       /\ store' = IF fail THEN store
                   ELSE [store EXCEPT ![""] =
                           ZAdd(@, [Score |-> UnixMilli(l.now), Member |-> l.item])]
       /\ proc' = [proc EXCEPT ![p] = [l EXCEPT !.pc = "ZCount", !.addErr = fail]]
    /\ UNCHANGED <<clock, uuids, config, started, last>>

\* lines 74-77, executed by the store
Add(p, fail) ==
    /\ proc[p].pc = "ZAdd"
    /\ LET l == proc[p] IN
       /\ store' = IF fail THEN store
                   ELSE [store EXCEPT ![l.r.Key] =
                           ZAdd(@, [Score |-> UnixMilli(l.now), Member |-> l.item])]
       /\ proc' = [proc EXCEPT ![p] = [l EXCEPT !.pc = "ZCount", !.addErr = fail]]
    /\ UNCHANGED <<clock, uuids, config, started, last>>

\* line 80 executed by the store, then lines 82-113
Count(p, fail, execErr) ==
    /\ proc[p].pc = "ZCount"
    /\ LET l == proc[p]
           totalRequests == IF fail THEN 0
                            ELSE ZCount(store[l.r.Key], sortedSetMin, sortedSetMax)
           out == WriteOutcome(l.r, l.expiresAt, execErr, l.removeErr, l.addErr, fail,
                               totalRequests)
       IN last' = Returned(l, "write", fail, execErr, out)
    /\ proc' = [proc EXCEPT ![p] = Idle]
    /\ UNCHANGED <<store, clock, uuids, config, started>>

\* the clock injected as now() moves on
Tick ==
    /\ clock < StartClock + MaxClock
    /\ clock' = clock + 1
    /\ UNCHANGED <<store, uuids, proc, config, started, last>>

\* middleware.go lines 104-108: the request the middleware hands to Run
ConfigRequest(key) ==
    [Key |-> key, Limit |-> config.MaxRequests, Duration |-> config.Expiration]

\* ---------------------------------------------------------------- middleware
\* Strings are sequences of characters; a request carries one value per header
\* name, the empty string for a header that is absent (http.Header.Get).
HeaderNames == {"X", "Y"}
Chars == {" ", "a"}
Values == UNION {[1..m -> Chars] : m \in 0..MaxLen}
Headers == [HeaderNames -> Values]
Extractors == UNION {[1..m -> HeaderNames] : m \in 0..MaxHeaders}

\* net/http status codes used by the middleware
StatusBadRequest == 400
StatusTooManyRequests == 429
StatusInternalServerError == 500

\* middleware.go lines 14-17
stateStrings == (Allow :> "Allow") @@ (Deny :> "Deny")

RECURSIVE TrimLeft(_)
TrimLeft(s) == IF s # <<>> /\ Head(s) = " " THEN TrimLeft(Tail(s)) ELSE s

RECURSIVE TrimRight(_)
TrimRight(s) ==
    IF s # <<>> /\ s[Len(s)] = " " THEN TrimRight(SubSeq(s, 1, Len(s) - 1)) ELSE s

\* a TrimSpace that leaves trailing spaces in place
TrimSpaceLeftOnly(s) == TrimLeft(s)

\* strings.TrimSpace
TrimSpace(s) == TrimRight(TrimLeft(s))

\* strings.Join
RECURSIVE Join(_, _)
Join(elems, sep) ==
    IF elems = <<>> THEN <<>>
    ELSE IF Len(elems) = 1 THEN elems[1]
    ELSE elems[1] \o sep \o Join(Tail(elems), sep)

\* middleware.go lines 43-51: the loop over the configured header names
RECURSIVE ExtractLoop(_, _, _)
ExtractLoop(headers, header, values) ==
    IF headers = <<>>
    THEN [key |-> Join(values, <<"-">>), err |-> FALSE]
    ELSE LET value == TrimSpace(header[Head(headers)])
         IN IF value = <<>>
            THEN [key |-> <<>>, err |-> TRUE]
            ELSE ExtractLoop(Tail(headers), header, Append(values, value))

\* middleware.go lines 40-52: httpHeaderExtractor.Extract
Extract(headers, header) == ExtractLoop(headers, header, <<>>)

\* What a Strategy may hand back to the middleware: an error, or a Result.
StrategyOutcomes ==
    {[res |-> Nil, err |-> TRUE]} \cup
    {[res |-> MkResult(state, total, clock + config.Expiration), err |-> FALSE] :
        state \in {Deny, Allow}, total \in 0..(MaxLimit + 1)}

\* middleware.go lines 84-90: writeResponse
writeResponse(status) == [status |-> status, wrote |-> TRUE, next |-> 0]

\* middleware.go lines 115-118: the rate limiting headers
RateLimitHeaders(result) ==
    [TotalRequests |-> result.TotalRequests, State |-> stateStrings[result.State],
     ExpiresAt |-> result.ExpiresAt]

\* a handler without the return after the 429 response
RespondFallsThrough(out) ==
    IF out.err THEN writeResponse(StatusInternalServerError)
    ELSE IF out.res.State = Deny
         THEN [status |-> StatusTooManyRequests, wrote |-> TRUE, next |-> 1]
    ELSE [status |-> 0, wrote |-> FALSE, next |-> 1]

\* a handler answering a failed Run with 429 and a denial with 500
RespondStatusSwapped(out) ==
    IF out.err THEN writeResponse(StatusTooManyRequests)
    ELSE IF out.res.State = Deny THEN writeResponse(StatusInternalServerError)
    ELSE [status |-> 0, wrote |-> FALSE, next |-> 1]

\* middleware.go lines 110-130: what the middleware does with what Run returned
Respond(out) ==
    IF out.err THEN writeResponse(StatusInternalServerError)
    ELSE IF out.res.State = Deny THEN writeResponse(StatusTooManyRequests)
    ELSE [status |-> 0, wrote |-> FALSE, next |-> 1]

\* middleware.go lines 97-131: the handler, for a request with the given
\* headers and a Strategy whose Run returns out.  The handler keeps nothing
\* from one request to the next: a behaviour follows one request.
RateLimitingMiddleware(header, out) ==
    LET e == Extract(extractor, header) IN
    /\ http = NoRequest
    /\ http' = IF e.err
               THEN [n |-> 1, header |-> header, key |-> e.key, extractErr |-> TRUE,
                     run |-> <<>>, out |-> Nil, limits |-> Nil,
                     response |-> writeResponse(StatusBadRequest)]
               ELSE [n |-> 1, header |-> header, key |-> e.key, extractErr |-> FALSE,
                     run |-> <<ConfigRequest(e.key)>>, out |-> out,
                     limits |-> IF out.err THEN Nil ELSE RateLimitHeaders(out.res),
                     response |-> Respond(out)]
    /\ UNCHANGED <<store, clock, uuids, proc, config, started, last, log, extractor>>

\* ---------------------------------------------------------------- specifications
\* Concurrent callers behind one middleware configuration, any key, a store
\* that answers every command.
Next ==
    \/ \E p \in Procs, k \in Keys :
          started < MaxCalls /\ Begin(p, ConfigRequest(k), FALSE) /\ UNCHANGED <<log, extractor, http>>
    \/ \E p \in Procs : RemoveByScore(p, FALSE) /\ UNCHANGED <<log, extractor, http>>
    \/ \E p \in Procs : Add(p, FALSE) /\ UNCHANGED <<log, extractor, http>>
    \/ \E p \in Procs : Count(p, FALSE, FALSE) /\ UNCHANGED <<log, extractor, http>>
    \/ Tick /\ UNCHANGED <<log, extractor, http>>

Spec == Init /\ [][Next]_vars

\* One caller on one key, a store whose every command may fail.
NextFault ==
    \/ \E fail \in BOOLEAN :
          started < MaxCalls /\ Begin("p1", ConfigRequest("A"), fail) /\ UNCHANGED <<log, extractor, http>>
    \/ \E fail \in BOOLEAN : RemoveByScore("p1", fail) /\ UNCHANGED <<log, extractor, http>>
    \/ \E fail \in BOOLEAN : Add("p1", fail) /\ UNCHANGED <<log, extractor, http>>
    \/ \E fail \in BOOLEAN, execErr \in BOOLEAN : Count("p1", fail, execErr) /\ UNCHANGED <<log, extractor, http>>
    \/ Tick /\ UNCHANGED <<log, extractor, http>>

SpecFault == Init /\ [][NextFault]_vars

\* One caller at a time on one key behind a valid configuration, no store
\* failure; the history of returned calls is kept.
InitSeq ==
    /\ InitWith([MaxRequests : 1..MaxLimit, Expiration : Windows])
    /\ extractor = <<>>
    /\ http = NoRequest

Logged == /\ log' = IF last'.n # last.n THEN Append(log, last') ELSE log
          /\ UNCHANGED <<extractor, http>>

NextSeq ==
    \/ Begin("p1", ConfigRequest("A"), FALSE) /\ Logged
    \/ RemoveByScore("p1", FALSE) /\ Logged
    \/ Add("p1", FALSE) /\ Logged
    \/ Count("p1", FALSE, FALSE) /\ Logged
    \/ Running = {} /\ Tick /\ Logged

SpecSeq == InitSeq /\ [][NextSeq]_vars

\* One caller at a time on one key, calling Run directly with a Limit and a
\* Duration of its choice on every call; no store failure, history kept.
VaryRequests ==
    {[Key |-> "A", Limit |-> l, Duration |-> d] : l \in {1, MaxLimit}, d \in Windows}

InitVary ==
    /\ InitWith({[MaxRequests |-> MaxLimit, Expiration |-> MaxWindow]})
    /\ extractor = <<>>
    /\ http = NoRequest

NextVary ==
    \/ \E r \in VaryRequests : Begin("p1", r, FALSE) /\ Logged
    \/ RemoveByScore("p1", FALSE) /\ Logged
    \/ Add("p1", FALSE) /\ Logged
    \/ Count("p1", FALSE, FALSE) /\ Logged
    \/ Running = {} /\ Tick /\ Logged

SpecVary == InitVary /\ [][NextVary]_vars

\* Concurrent callers on one key behind a valid configuration, no store
\* failure; the history of returned calls is kept.
NextRace ==
    \/ \E p \in Procs : Begin(p, ConfigRequest("A"), FALSE) /\ Logged
    \/ \E p \in Procs : RemoveByScore(p, FALSE) /\ Logged
    \/ \E p \in Procs : Add(p, FALSE) /\ Logged
    \/ \E p \in Procs : Count(p, FALSE, FALSE) /\ Logged
    \/ Tick /\ Logged

SpecRace == InitSeq /\ [][NextRace]_vars

\* The middleware in front of any Strategy: an extractor built with any list
\* of header names, requests with any header values.  The handler passes
\* MaxRequests and Expiration on without reading them, so one configuration
\* is followed.
InitHTTP ==
    /\ InitRun
    /\ config = [MaxRequests |-> MaxLimit, Expiration |-> MaxDuration]
    /\ extractor \in Extractors
    /\ http = NoRequest

NextHTTP ==
    \/ /\ http = NoRequest
       /\ \E header \in Headers, out \in StrategyOutcomes :
              RateLimitingMiddleware(header, out)
    \/ http = NoRequest /\ Tick /\ UNCHANGED <<log, extractor, http>>

SpecHTTP == InitHTTP /\ [][NextHTTP]_vars

\* ---------------------------------------------------------------- properties
\* spec.md section 7, InvalidRequest: what a well-formed request is
ValidRequest(r) == r.Key # "" /\ r.Limit >= 1 /\ r.Duration >= 1

Allowed(e) == ~e.err /\ e.res.State = Allow
Denied(e) == ~e.err /\ e.res.State = Deny

\* the first call and call i lie within one window of length d, on the clock
WithinWindow(i, d) == log[i].now - log[1].now < d

\* the same, on the millisecond scores the store holds: the first call's score
\* is above the prune bound of call i
WithinWindowMilli(i, d) == UnixMilli(log[i].now - d) < UnixMilli(log[1].now)

\* C1 (as claimed): from an empty key, with limit L >= 1 and window D fixed, of
\* L+1 calls in sequence whose times lie within one window of length D the
\* first L are allowed and the (L+1)-th is denied.
C1_Original ==
    \A i \in 1..Len(log) :
        (i <= config.MaxRequests + 1 /\ WithinWindow(i, config.Expiration))
            => IF i <= config.MaxRequests THEN Allowed(log[i]) ELSE Denied(log[i])

\* C1 (amended): the same, for calls whose times lie within one window at the
\* millisecond resolution of the scores: UnixMilli(t - D) of the call is
\* below UnixMilli of the first call's time.
C1_QuotaSequential ==
    \A i \in 1..Len(log) :
        (i <= config.MaxRequests + 1 /\ WithinWindowMilli(i, config.Expiration))
            => IF i <= config.MaxRequests THEN Allowed(log[i]) ELSE Denied(log[i])

C1_Witness ==
    /\ config.MaxRequests = MaxLimit
    /\ Len(log) = config.MaxRequests + 1
    /\ WithinWindowMilli(Len(log), config.Expiration)
    /\ log[Len(log)].now > log[1].now
    /\ Denied(log[Len(log)])

\* the step in which process p sends its probe (line 54)
Probes(p) == proc[p].pc = "idle" /\ started' = started + 1 /\
             (proc'[p].pc # "idle" \/ last'.n # last.n) /\
             \A q \in Procs \ {p} : proc'[q] = proc[q]

\* C2 (as claimed): a call for a well-formed request whose probe succeeds with
\* a count >= Limit returns {Deny, that count, now + Duration} without error
\* at once: it never reaches the pipeline, and the store is as it was.
C2_Original ==
    /\ \A p \in Running :
          (ValidRequest(proc[p].r) /\ ~proc[p].probeErr)
              => proc[p].result < proc[p].r.Limit
    /\ (last.n > 0 /\ last.path = "precheck")
          => last.res = MkResult(Deny, last.result, last.now + last.r.Duration)

\* the calls that inserted a record, and the calls that returned Allow
Inserted == {i \in 1..Len(log) : log[i].path = "write" /\ ~log[i].addErr}
Admitted == {i \in 1..Len(log) : Allowed(log[i])}

\* C3 (as claimed): once every call has returned, the records ever inserted
\* for the key are no more than the calls that returned Allow for it.
C3_Original ==
    Running = {} => Cardinality(Inserted) <= Cardinality(Admitted)

\* call i comes more than D after every earlier call, at least Limit of which
\* were admitted
RolledOff(i) ==
    /\ \A j \in 1..(i - 1) : log[i].now - log[j].now > log[i].r.Duration
    /\ Cardinality({j \in 1..(i - 1) : Allowed(log[j])}) >= log[i].r.Limit

Returns(p) == proc[p].pc = "ZCount" /\ proc'[p].pc = "idle"

\* the records of call l's key that lie in the half-open window (now - D, now],
\* with the record the call has inserted itself
InWindow(set, l) ==
    {z \in set : z.Score > UnixMilli(l.now - l.r.Duration) \/ z.Member = l.item}

ProbeLeavesOutEdge(p) ==
    (Probes(p) /\ proc'[p].pc # "idle")
        => proc'[p].result =
               Cardinality(InWindow(store[proc'[p].r.Key], [proc'[p] EXCEPT !.item = 0]))

TotalLeavesOutEdge(p) ==
    Returns(p) => last'.res.TotalRequests =
                      Cardinality(InWindow(store[proc[p].r.Key], proc[p]))

\* C5 (as claimed): a record whose score is exactly now - D, in milliseconds,
\* is left out of the probe's count and of the count returned after the prune.
C5_Original ==
    [][\A p \in Procs : ProbeLeavesOutEdge(p) /\ TotalLeavesOutEdge(p)]_vars

\* a store command of the returned call e reported an error
PipelineFailed(e) == e.execErr \/ e.removeErr \/ e.addErr \/ e.countErr
StoreFailed(e) == e.probeErr \/ (e.path = "write" /\ PipelineFailed(e))

\* every store command the returned call e sent reported an error
AllFailed(e) ==
    /\ e.probeErr
    /\ e.path = "write" => (e.execErr /\ e.removeErr /\ e.addErr /\ e.countErr)

\* C6 (as claimed): a call for a well-formed request of which any store
\* command failed, the probe included, returns an error and no Result.
C6_Original ==
    (last.n > 0 /\ ValidRequest(last.r) /\ StoreFailed(last))
        => last.err /\ last.res = Nil

\* C7: a call whose pipeline failed to execute, or of whose three commands
\* any reported an error, returns an error and no Result.
C7_PipelineFailurePropagates ==
    (last.n > 0 /\ last.path = "write" /\ PipelineFailed(last))
        => last.err /\ last.res = Nil

\* a partial write: the prune went through, the insert did not
C7_Witness ==
    /\ last.n > 1
    /\ last.path = "write"
    /\ ~last.execErr /\ ~last.removeErr /\ last.addErr /\ ~last.countErr
    /\ store[last.r.Key] = {}
    /\ last.err

\* C8 (as claimed): a call all of whose store commands failed returns an error
\* and no Result, whatever the request.
C8_Original ==
    (last.n > 0 /\ AllFailed(last)) => last.err /\ last.res = Nil

\* C9 (as claimed): a call with an empty key, a zero limit or a non-positive
\* duration returns an error without sending any command to the store.
C9_Original ==
    /\ \A p \in Running : ValidRequest(proc[p].r)
    /\ (last.n > 0 /\ ~ValidRequest(last.r)) => last.err /\ last.res = Nil

\* the records of key k change only in a prune or insert of a call for k
WritesOwnKey(k) ==
    store'[k] # store[k]
        => \E p \in Procs : /\ proc[p].pc \in {"ZRemRangeByScore", "ZAdd"}
                            /\ proc[p].r.Key = k
                            /\ proc'[p] # proc[p]

\* the counts process p gets back are counts of the records of its own key
ReadsOwnKey(p) ==
    /\ (Probes(p) /\ proc'[p].pc # "idle")
          => proc'[p].result =
                 Cardinality({z \in store[proc'[p].r.Key] :
                                 z.Score >= UnixMilli(proc'[p].minimum)})
    /\ Returns(p)
          => last'.res.TotalRequests = Cardinality(store[proc[p].r.Key])

\* C10: the records of a key change only in a step of a call for that key,
\* and the counts a call gets back are counts of the records of its own key.
C10_KeyIsolation ==
    [][(\A k \in Keys : WritesOwnKey(k)) /\ (\A p \in Procs : ReadsOwnKey(p))]_vars

C10_Witness ==
    /\ store["A"] # {}
    /\ store["B"] # {}
    /\ last.n = MaxCalls
    /\ last.r.Key = "B"
    /\ last.res.TotalRequests = 1

\* ------------------------------------------------- properties of a Result
HasResult(l) == l.n > 0 /\ ~l.err

\* C15: every Result, Allow or Deny, has ExpiresAt = evaluation time +
\* Duration, so the ExpiresAt of two evaluations with the same Duration differ
\* by exactly the difference of their evaluation times.
C15_ExpiresAt ==
    /\ [](HasResult(last) => last.res.ExpiresAt = last.now + last.r.Duration)
    /\ [][(HasResult(last) /\ HasResult(last') /\ last'.r.Duration = last.r.Duration)
            => last'.res.ExpiresAt - last.res.ExpiresAt = last'.now - last.now]_vars

C15_Witness ==
    /\ HasResult(last)
    /\ last.n = 2
    /\ last.res.State = Allow
    /\ clock > last.now
    /\ last.r.Duration > 0
    /\ last.res.ExpiresAt = last.now + last.r.Duration

EarlierWithin(i, D) == {j \in 1..(i - 1) : log[j].now > log[i].now - D}

\* the same at the millisecond resolution of the stored scores
EarlierWithinMilli(i, D) ==
    {j \in 1..(i - 1) : UnixMilli(log[j].now) > UnixMilli(log[i].now - D)}

C14_Original ==
    \A i \in 1..Len(log) :
        log[i].res.TotalRequests =
            Cardinality({j \in 1..i : log[j].now > log[i].now - log[i].r.Duration})

\* the record of call j is still in the set when call i counts: no call after
\* j up to i has pruned it
Survives(j, i) ==
    \A m \in (j + 1)..i : UnixMilli(log[j].now) > UnixMilli(log[m].now - log[m].r.Duration)

\* C14 (amended): the TotalRequests of a call is the number of calls up to
\* and including itself whose record no later call up to and including
\* itself has pruned, a call at t with window D pruning the records whose
\* millisecond is at most UnixMilli(t - D).
C14_TotalIsSurvivors ==
    \A i \in 1..Len(log) :
        log[i].res.TotalRequests = Cardinality({j \in 1..i : Survives(j, i)})

C14_Witness ==
    /\ Len(log) = 3
    /\ log[2].r.Duration < log[3].r.Duration
    /\ log[2].r.Limit # log[3].r.Limit
    /\ UnixMilli(log[1].now) > UnixMilli(log[3].now - log[3].r.Duration)
    /\ ~Survives(1, 2)
    /\ log[2].res.TotalRequests = 1
    /\ log[3].res.TotalRequests = 2

\* ------------------------------------------------- concurrent callers
\* calls that have inserted their record and not yet returned
Inserting == {p \in Running : proc[p].pc = "ZCount"}

\* C16: concurrent calls for one key with the same L and D can insert more
\* than L records before any of them has seen a total above L; before the
\* first call returns the set holds no more records than there are calls
\* between their insert and their count.
C16_OvershootWhileInFlight ==
    last.n = 0 => Cardinality(store["A"]) <= Cardinality(Inserting)

C16_Witness ==
    /\ last.n = 0
    /\ config.MaxRequests >= 1
    /\ Cardinality(store["A"]) > config.MaxRequests
    /\ \A p \in Running : ~proc[p].probeErr /\ proc[p].result < config.MaxRequests

\* the times of all calls made so far, returned or still running
CallTimes == {log[i].now : i \in 1..Len(log)} \cup {proc[p].now : p \in Running}

AllowedCalls == {i \in 1..Len(log) : Allowed(log[i])}

\* C17 (as claimed): concurrent calls for one key with the same L and D whose
\* times lie within one window of length D: however the store commands
\* interleave, at most L of them return Allow.
C17_Original ==
    (\A t, u \in CallTimes : t > u - config.Expiration)
        => Cardinality(AllowedCalls) <= config.MaxRequests

\* C17 (amended): the same for calls whose times lie within one window at
\* the millisecond resolution of the scores: UnixMilli of every call's time
\* is above UnixMilli(t - D) for every call's time t.
C17_QuotaConcurrent ==
    (\A t, u \in CallTimes : UnixMilli(t) > UnixMilli(u - config.Expiration))
        => Cardinality(AllowedCalls) <= config.MaxRequests

C17_Witness ==
    /\ Len(log) = 2
    /\ Running = {}
    /\ config.MaxRequests = 1
    /\ log[1].now < log[2].now
    /\ \A t, u \in CallTimes : UnixMilli(t) > UnixMilli(u - config.Expiration)
    /\ Denied(log[1]) /\ Denied(log[2])

\* ------------------------------------------------- properties of the middleware
Handled == http.n > 0
ExtractFailed == Handled /\ http.extractErr
RunFailed == Handled /\ ~http.extractErr /\ http.out.err
RunDenied == Handled /\ ~http.extractErr /\ ~http.out.err /\ http.out.res.State = Deny
RunAllowed == Handled /\ ~http.extractErr /\ ~http.out.err /\ http.out.res.State = Allow

\* C11: the wrapped handler is invoked exactly once when extraction succeeds
\* and Run returns no error and Allow; when extraction fails, Run fails or Run
\* denies it is not invoked and the middleware writes the response itself.
C11_NextOnlyWhenAllowed ==
    /\ RunAllowed => http.response.next = 1
    /\ (ExtractFailed \/ RunFailed \/ RunDenied) =>
           http.response.next = 0 /\ http.response.wrote

C11_Witness == RunAllowed /\ http.response.next = 1 /\ ~http.response.wrote

\* C12: a failed extraction is answered with 400 and Run is not invoked, a
\* failed Run with 500, a denial with 429.
C12_StatusCodes ==
    /\ ExtractFailed => http.response.status = 400 /\ http.run = <<>>
    /\ RunFailed => http.response.status = 500
    /\ RunDenied => http.response.status = 429

C12_Witness ==
    /\ RunDenied
    /\ http.response.status = 429
    /\ Len(http.run) = 1

\* a header value that is absent, empty, or only spaces
Blank(s) == \A i \in 1..Len(s) : s[i] = " "

\* s without its leading and trailing spaces
Trimmed(s) ==
    LET solid == {i \in 1..Len(s) : s[i] # " "}
    IN IF solid = {} THEN <<>>
       ELSE SubSeq(s, CHOOSE i \in solid : \A j \in solid : i <= j,
                      CHOOSE i \in solid : \A j \in solid : i >= j)

\* the first n of vals, in order, with "-" between neighbours
RECURSIVE JoinedUpTo(_, _)
JoinedUpTo(vals, n) ==
    IF n = 0 THEN <<>>
    ELSE IF n = 1 THEN vals[1]
    ELSE JoinedUpTo(vals, n - 1) \o <<"-">> \o vals[n]

ConfiguredValues == [i \in 1..Len(extractor) |-> http.header[extractor[i]]]

\* C13: Extract returns an error whenever a configured header is absent or
\* empty after trimming; otherwise it returns the trimmed values of all
\* configured headers, in configured order, joined by "-".
C13_ExtractJoinsTrimmed ==
    Handled =>
        LET blank == \E i \in 1..Len(extractor) : Blank(ConfiguredValues[i])
        IN /\ http.extractErr <=> blank
           /\ ~blank =>
                 http.key = JoinedUpTo([i \in 1..Len(extractor) |->
                                           Trimmed(ConfiguredValues[i])],
                                       Len(extractor))

C13_Witness ==
    /\ Handled
    /\ ~http.extractErr
    /\ extractor = <<"Y", "X">>
    /\ http.header["Y"] = <<"a", " ">>
    /\ http.header["X"] = <<" ", "a">>
    /\ http.key = <<"a", "-", "a">>

\* C20: the middleware never calls Run with an empty Key, whatever list of
\* header names the extractor was built with.
C20_Original == Handled => \A i \in 1..Len(http.run) : http.run[i].Key # <<>>

====
